---- MODULE Spec2Model ----
(***************************************************************************)
(* State-machine model of the grid layer of stride:                        *)
(*   stride/problem/domain.py                 Space, Time, SlowTime        *)
(*   stride/problem_types/operators/devito.py GridDevito, _cached and the  *)
(*                                            devito.SubDomain subclasses  *)
(*                                                                         *)
(* Six specifications share the module, one per object or method under    *)
(* study:                                                                  *)
(*   SpecTime      a Time object: construction and extend                  *)
(*   SpecSlowTime  a SlowTime object: construction and num                 *)
(*   SpecSpace     a Space object: construction, inner and inner_mask      *)
(*   SpecResample  a Space object: construction and resample               *)
(*   SpecGrid      a GridDevito object: set_problem with problems of one   *)
(*                 axis, the four cached declaration methods and           *)
(*                 deallocate                                              *)
(*   SpecHicks     a GridDevito object: set_problem with problems of every *)
(*                 number of axes, and calculate_hicks                     *)
(*                                                                         *)
(* Python numbers are modelled as they are: an int is an integer and a     *)
(* float is an IEEE 754 double, with the arithmetic of doubles; None is a  *)
(* value of its own.                                                       *)
(***************************************************************************)
EXTENDS Integers, Sequences, FiniteSets, TLC

VARIABLES
    time,        \* the Time object under study, or NoTime
    timeCall,    \* the latest call on Time: operation, arguments, error raised
    space,       \* the Space object under study, or NoSpace
    spaceCall,   \* the latest call on Space: operation, arguments
    inner,       \* the latest value read from Space.inner, or <<>> before a read
    inner_mask,  \* the latest value read from Space.inner_mask, or NoMask
    problem,     \* GridDevito._problem
    grid,        \* GridDevito.grid
    regions,     \* GridDevito.full, interior, pml, pml_left, ... (one record)
    self_vars,   \* GridDevito.vars: name -> declaration, NoObject when absent
    call,        \* the latest call on GridDevito: operation, arguments, result
    resampled,   \* the latest Space.resample: its arguments, the Space returned
    slow_time,   \* the SlowTime object under study, or NoSlowTime
    slowCall,    \* the latest call on SlowTime: operation, arguments, result
    hicks        \* what the latest GridDevito.calculate_hicks computed

timeVars == <<time, timeCall>>
spaceVars == <<space, spaceCall, inner, inner_mask, resampled>>
gridVars == <<problem, grid, regions, self_vars, call, hicks>>
slowVars == <<slow_time, slowCall>>
vars == <<time, timeCall, space, spaceCall, inner, inner_mask,
          problem, grid, regions, self_vars, call,
          resampled, slow_time, slowCall, hicks>>

-----------------------------------------------------------------------------
(* Bounds of the model.                                                    *)

\* largest magnitude of a time value handed to Time(...)
MaxTimeVal == 1
\* largest num handed to Time(...)
MaxNum == 3
\* largest padding handed to Time.extend
MaxPad == 2
\* largest number of axes of a Space built in SpecSpace
MaxSpaceDim == 2
\* largest inner shape per axis
MaxShape == 2
\* largest extra per axis
MaxExtra == 1
\* largest number of axes of the problem handed to GridDevito.set_problem
MaxDim == 3
\* largest undersampling factor
MaxFactor == 2
\* largest rate, and largest divisor of a step, handed to SlowTime(...)
MaxRate == 2
\* largest coordinate handed to calculate_hicks, in quarters of a metre
MaxCoord == 2

-----------------------------------------------------------------------------
(* Python numbers.                                                         *)
(*                                                                         *)
(* A number is [t, n, sgn, m, e].  An int (t = "int") is the integer n.    *)
(* A float (t = "float") is the IEEE 754 double sgn * m * 2^e itself: sgn  *)
(* is 1 or -1, m is the odd natural number that is left of the significand *)
(* when its trailing zero bits are moved into the exponent e, and 0.0 and  *)
(* -0.0 have m = 0 and e = 0.  m has up to 53 bits, more than an integer   *)
(* of the model checker holds, so it is written in base 2^15 as a sequence *)
(* of limbs, the least significant first and the last one not 0; 0 is      *)
(* <<>>.  So 1.0 is [sgn |-> 1, m |-> <<1>>, e |-> 0], 0.5 has e = -1 and  *)
(* 0.1 is 3602879701896397 * 2^-55, m = <<19661, 6553, 13107, 102>>.       *)
(* The fields a type does not use are n = 0, sgn = 1, m = <<>> and e = 0.  *)
(* None is a value of its own.                                             *)
(*                                                                         *)
(* The four operations on floats return the double nearest to the exact    *)
(* result, a tie going to the even significand, as the hardware does; an   *)
(* int that meets a float is converted first, without error for the ints   *)
(* of the model.  The exponents of the model stay far from the ends of the *)
(* range of a double, so nothing overflows or becomes subnormal.           *)

RECURSIVE Pow2(_)
Pow2(n) == IF n = 0 THEN 1 ELSE 2 * Pow2(n - 1)

\* the number of bits of n >= 0, and the number of trailing zero bits of
\* n > 0
RECURSIVE Bits(_)
Bits(n) == IF n = 0 THEN 0 ELSE 1 + Bits(n \div 2)

RECURSIVE TrailingZeros(_)
TrailingZeros(n) == IF n % 2 = 1 THEN 0 ELSE 1 + TrailingZeros(n \div 2)

\* the base of the limbs of a significand
LimbBits == 15
Base == Pow2(LimbBits)

\* limb i of a, 0 beyond its length
Limb(a, i) == IF i <= Len(a) THEN a[i] ELSE 0

\* a without its leading zero limbs
RECURSIVE BigTrim(_)
BigTrim(a) ==
    IF Len(a) = 0 THEN a
    ELSE IF a[Len(a)] = 0 THEN BigTrim(SubSeq(a, 1, Len(a) - 1))
    ELSE a

\* the natural number n in limbs, and back for a value below 2^31
RECURSIVE BigOfNat(_)
BigOfNat(n) == IF n = 0 THEN <<>> ELSE <<n % Base>> \o BigOfNat(n \div Base)

RECURSIVE BigToNat(_)
BigToNat(a) == IF Len(a) = 0 THEN 0 ELSE a[1] + Base * BigToNat(Tail(a))

\* -1, 0 or 1 as a < b, a = b or a > b
RECURSIVE BigCmpFrom(_, _, _)
BigCmpFrom(a, b, i) ==
    IF i = 0 THEN 0
    ELSE IF a[i] < b[i] THEN -1
    ELSE IF a[i] > b[i] THEN 1
    ELSE BigCmpFrom(a, b, i - 1)

BigCmp(a, b) ==
    IF Len(a) < Len(b) THEN -1
    ELSE IF Len(a) > Len(b) THEN 1
    ELSE BigCmpFrom(a, b, Len(a))

\* a + b
RECURSIVE BigAddFrom(_, _, _, _)
BigAddFrom(a, b, i, carry) ==
    IF i > Len(a) /\ i > Len(b)
    THEN IF carry = 0 THEN <<>> ELSE <<carry>>
    ELSE LET s == Limb(a, i) + Limb(b, i) + carry
         IN  <<s % Base>> \o BigAddFrom(a, b, i + 1, s \div Base)

BigAdd(a, b) == BigAddFrom(a, b, 1, 0)

\* a - b, for a >= b
RECURSIVE BigSubFrom(_, _, _, _)
BigSubFrom(a, b, i, borrow) ==
    IF i > Len(a) THEN <<>>
    ELSE LET s == a[i] - Limb(b, i) - borrow
         IN  IF s < 0
             THEN <<s + Base>> \o BigSubFrom(a, b, i + 1, 1)
             ELSE <<s>> \o BigSubFrom(a, b, i + 1, 0)

BigSub(a, b) == BigTrim(BigSubFrom(a, b, 1, 0))

\* a * k, for 0 <= k <= Base
RECURSIVE BigMulSmallFrom(_, _, _, _)
BigMulSmallFrom(a, k, i, carry) ==
    IF i > Len(a)
    THEN IF carry = 0 THEN <<>> ELSE <<carry>>
    ELSE LET s == a[i] * k + carry
         IN  <<s % Base>> \o BigMulSmallFrom(a, k, i + 1, s \div Base)

BigMulSmall(a, k) == IF k = 0 THEN <<>> ELSE BigMulSmallFrom(a, k, 1, 0)

\* a * Base^n
BigShiftLimbs(a, n) ==
    IF Len(a) = 0 THEN a ELSE [i \in 1..n |-> 0] \o a

\* a * b
RECURSIVE BigMul(_, _)
BigMul(a, b) ==
    IF Len(b) = 0 THEN <<>>
    ELSE BigAdd(BigMulSmall(a, b[1]), BigShiftLimbs(BigMul(a, Tail(b)), 1))

\* a \div k, for 1 <= k <= Base: long division from the top limb down
RECURSIVE BigDivSmallFrom(_, _, _, _)
BigDivSmallFrom(a, k, i, rem) ==
    IF i = 0 THEN <<>>
    ELSE LET cur == rem * Base + a[i]
         IN  BigDivSmallFrom(a, k, i - 1, cur % k) \o <<cur \div k>>

BigDivSmall(a, k) == BigTrim(BigDivSmallFrom(a, k, Len(a), 0))

\* a * 2^s and a \div 2^s, for s >= 0
BigShl(a, s) ==
    BigShiftLimbs(BigMulSmall(a, Pow2(s % LimbBits)), s \div LimbBits)

BigShr(a, s) ==
    IF s \div LimbBits >= Len(a) THEN <<>>
    ELSE BigDivSmall(SubSeq(a, s \div LimbBits + 1, Len(a)),
                     Pow2(s % LimbBits))

\* the number of bits of a, bit k of a (bit 0 the lowest), and the number of
\* trailing zero bits of a > 0
BigBits(a) ==
    IF Len(a) = 0 THEN 0 ELSE LimbBits * (Len(a) - 1) + Bits(a[Len(a)])

BigBit(a, k) == (Limb(a, k \div LimbBits + 1) \div Pow2(k % LimbBits)) % 2

RECURSIVE BigTrailingZeros(_)
BigTrailingZeros(a) ==
    IF a[1] = 0 THEN LimbBits + BigTrailingZeros(Tail(a))
    ELSE TrailingZeros(a[1])

\* the largest d in lo..hi with b * d <= r, by bisection
RECURSIVE BigDigit(_, _, _, _)
BigDigit(r, b, lo, hi) ==
    IF lo = hi THEN lo
    ELSE LET mid == (lo + hi + 1) \div 2
         IN  IF BigCmp(BigMulSmall(b, mid), r) <= 0
             THEN BigDigit(r, b, mid, hi)
             ELSE BigDigit(r, b, lo, mid - 1)

\* k limbs of the quotient r/b, for r < b, by long division: [q, r] with q
\* the integer part of r * Base^k / b and r the remainder that is left
RECURSIVE BigDivLimbs(_, _, _)
BigDivLimbs(r, b, k) ==
    IF k = 0 THEN [q |-> <<>>, r |-> r]
    ELSE LET r1 == BigShiftLimbs(r, 1)
             d == BigDigit(r1, b, 0, Base - 1)
             rest == BigDivLimbs(BigSub(r1, BigMulSmall(b, d)), b, k - 1)
         IN  [q |-> rest.q \o <<d>>, r |-> rest.r]

None == [t |-> "None", n |-> 0, sgn |-> 1, m |-> <<>>, e |-> 0]

PyInt(n) == [t |-> "int", n |-> n, sgn |-> 1, m |-> <<>>, e |-> 0]

IsNone(x) == x.t = "None"
IsNumber(x) == x.t \in {"int", "float"}

\* the bits of the significand of a double
Precision == 53

\* 0.0 and -0.0
FloatZero(sgn) == [t |-> "float", n |-> 0, sgn |-> sgn, m |-> <<>>, e |-> 0]

\* the double sgn * m * 2^e for m > 0 of at most 53 bits: the trailing zero
\* bits of m go into the exponent
Normal(sgn, m, e) ==
    LET z == BigTrailingZeros(m)
    IN  [t |-> "float", n |-> 0, sgn |-> sgn, m |-> BigShr(m, z), e |-> e + z]

\* the double nearest to sgn * m * 2^e, a tie to the even significand
Round(sgn, m, e) ==
    IF Len(m) = 0 THEN FloatZero(sgn)
    ELSE IF BigBits(m) <= Precision THEN Normal(sgn, m, e)
    ELSE LET drop == BigBits(m) - Precision
             kept == BigShr(m, drop)
             half == BigBit(m, drop - 1) = 1
             sticky == BigTrailingZeros(m) < drop - 1
             up == half /\ (sticky \/ kept[1] % 2 = 1)
         IN  Normal(sgn, IF up THEN BigAdd(kept, <<1>>) ELSE kept, e + drop)

\* float(x) of a number
ToFloat(a) ==
    IF a.t = "float" THEN a
    ELSE IF a.n = 0 THEN FloatZero(1)
    ELSE IF a.n < 0 THEN Normal(-1, BigOfNat(-a.n), 0)
    ELSE Normal(1, BigOfNat(a.n), 0)

\* x == 0 on a number: 0, 0.0 and -0.0
IsZero(a) == IF a.t = "int" THEN a.n = 0 ELSE Len(a.m) = 0

\* the type of the result of +, - and * on two numbers
Join(a, b) == IF a.t = "int" /\ b.t = "int" THEN "int" ELSE "float"

\* x + y on two floats: a sum that is zero is 0.0, and -0.0 when both are
\* -0.0
FloatAdd(x, y) ==
    IF Len(x.m) = 0 /\ Len(y.m) = 0
    THEN FloatZero(IF x.sgn = -1 /\ y.sgn = -1 THEN -1 ELSE 1)
    ELSE IF Len(y.m) = 0 THEN x
    ELSE IF Len(x.m) = 0 THEN y
    ELSE LET e == IF x.e < y.e THEN x.e ELSE y.e
             a == BigShl(x.m, x.e - e)
             b == BigShl(y.m, y.e - e)
             c == BigCmp(a, b)
         IN  IF x.sgn = y.sgn THEN Round(x.sgn, BigAdd(a, b), e)
             ELSE IF c = 0 THEN FloatZero(1)
             ELSE IF c > 0 THEN Round(x.sgn, BigSub(a, b), e)
             ELSE Round(y.sgn, BigSub(b, a), e)

\* -x on a float
FloatNeg(x) == [x EXCEPT !.sgn = -x.sgn]

\* x * y on two floats
FloatMul(x, y) == Round(x.sgn * y.sgn, BigMul(x.m, y.m), x.e + y.e)

\* the limbs of the quotient that a division computes: 60 bits, of which
\* 58 or more are significant
QuotientLimbs == 4

\* x / y on two floats, y not zero: the dividend a and the divisor b are
\* scaled so that b/4 < a < b, four limbs of the quotient a/b are computed,
\* and a last bit tells whether a remainder is left
FloatDiv(x, y) ==
    IF Len(x.m) = 0 THEN FloatZero(x.sgn * y.sgn)
    ELSE LET shift == BigBits(x.m) - BigBits(y.m) + 1
             a == IF shift < 0 THEN BigShl(x.m, -shift) ELSE x.m
             b == IF shift > 0 THEN BigShl(y.m, shift) ELSE y.m
             d == BigDivLimbs(a, b, QuotientLimbs)
             sticky == IF Len(d.r) = 0 THEN 0 ELSE 1
         IN  Round(x.sgn * y.sgn,
                   BigAdd(BigMulSmall(BigTrim(d.q), 2), BigOfNat(sticky)),
                   x.e - y.e + shift - QuotientLimbs * LimbBits - 1)

Add(a, b) ==
    IF Join(a, b) = "int" THEN PyInt(a.n + b.n)
    ELSE FloatAdd(ToFloat(a), ToFloat(b))
Sub(a, b) ==
    IF Join(a, b) = "int" THEN PyInt(a.n - b.n)
    ELSE FloatAdd(ToFloat(a), FloatNeg(ToFloat(b)))
Mul(a, b) ==
    IF Join(a, b) = "int" THEN PyInt(a.n * b.n)
    ELSE FloatMul(ToFloat(a), ToFloat(b))
\* true division, defined for b # 0 (Python raises ZeroDivisionError on a
\* zero): a float also for two ints
TrueDiv(a, b) == FloatDiv(ToFloat(a), ToFloat(b))

\* the float literal n/d, d > 0
PyFloat(n, d) == TrueDiv(PyInt(n), PyInt(d))

\* how a compares with b: "lt", "eq" or "gt"
Cmp(a, b) ==
    LET x == ToFloat(a)
        y == ToFloat(b)
        e == IF x.e < y.e THEN x.e ELSE y.e
        c == BigCmp(BigShl(x.m, x.e - e), BigShl(y.m, y.e - e))
        xs == IF Len(x.m) = 0 THEN 0 ELSE x.sgn
        ys == IF Len(y.m) = 0 THEN 0 ELSE y.sgn
    IN  IF xs < ys THEN "lt"
        ELSE IF xs > ys THEN "gt"
        ELSE IF xs = 0 THEN "eq"
        ELSE IF c = 0 THEN "eq"
        ELSE IF (c < 0) = (xs > 0) THEN "lt"
        ELSE "gt"
\* x == y on numbers: 1 == 1.0
NumEq(a, b) == IsNumber(a) /\ IsNumber(b) /\ Cmp(a, b) = "eq"
\* x != y on numbers
NumNe(a, b) == IsNumber(a) /\ IsNumber(b) /\ Cmp(a, b) # "eq"
\* x > y on numbers
Gt(a, b) == Cmp(a, b) = "gt"

\* int(x) of a number and ndarray.astype(int) on one float: truncation
\* towards zero.  A float with e < 0 has an odd m and so is not an integer.
TruncInt(a) ==
    IF a.t = "int" THEN a.n
    ELSE IF a.e >= 0 THEN a.sgn * BigToNat(BigShl(a.m, a.e))
    ELSE a.sgn * BigToNat(BigShr(a.m, -a.e))

\* int(np.ceil(x))
CeilInt(a) ==
    IF a.t = "float" /\ a.e < 0 /\ a.sgn = 1 THEN PyInt(TruncInt(a) + 1)
    ELSE PyInt(TruncInt(a))

One == PyInt(1)

\* np.round(x).astype(np.int32) on one float: to the nearest integer, a tie
\* to the even one
NpRound(a) ==
    IF a.t = "int" THEN a.n
    ELSE IF a.e >= 0 THEN TruncInt(a)
    ELSE LET f == BigToNat(BigShr(a.m, -a.e))
             half == BigBit(a.m, -a.e - 1) = 1
             tie == a.e = -1
             up == half /\ (~tie \/ f % 2 = 1)
         IN  a.sgn * (IF up THEN f + 1 ELSE f)

-----------------------------------------------------------------------------
(* domain.py: class Time.                                                  *)

NoTime == [start |-> None, stop |-> None, step |-> None, num |-> None,
           extra |-> <<>>, extended_start |-> None, extended_stop |-> None,
           extended_num |-> None]

\* a derivation that divides by num where the source divides by num - 1
TimeDeriveByNum(start, step, num, stop) ==
    LET given == [raised |-> FALSE, start |-> start, step |-> step,
                  num |-> num, stop |-> stop]
        raise == [given EXCEPT !.raised = TRUE]
    IN  IF IsNone(start)
        THEN IF IsNumber(stop) /\ IsNumber(step) /\ IsNumber(num)
             THEN [given EXCEPT !.start = Sub(stop, Mul(step, Sub(num, One)))]
             ELSE raise
        ELSE IF IsNone(step)
        THEN IF IsNumber(stop) /\ IsNumber(num) /\ ~IsZero(num)
             THEN [given EXCEPT !.step = TrueDiv(Sub(stop, start), num)]
             ELSE raise
        ELSE IF IsNone(num)
        THEN IF IsNumber(stop) /\ ~IsZero(step)
             THEN LET n == CeilInt(Add(TrueDiv(Sub(stop, start), step), One))
                  IN  [given EXCEPT
                         !.num = n,
                         !.stop = Add(Mul(step, Sub(n, One)), start)]
             ELSE raise
        ELSE IF IsNone(stop)
        THEN [given EXCEPT !.stop = Add(start, Mul(step, Sub(num, One)))]
        ELSE given

\* The try block of Time.__init__: the first argument that is None, in the
\* order start, step, num, stop, is derived from the other three.  Arithmetic
\* on None raises TypeError and a division by zero ZeroDivisionError; the
\* bare except turns either into ValueError.  With no argument None, nothing
\* is derived and nothing is compared.
TimeDerive(start, step, num, stop) ==
    LET given == [raised |-> FALSE, start |-> start, step |-> step,
                  num |-> num, stop |-> stop]
        raise == [given EXCEPT !.raised = TRUE]
    IN  IF IsNone(start)
        THEN IF IsNumber(stop) /\ IsNumber(step) /\ IsNumber(num)
             THEN [given EXCEPT !.start = Sub(stop, Mul(step, Sub(num, One)))]
             ELSE raise
        ELSE IF IsNone(step)
        THEN IF IsNumber(stop) /\ IsNumber(num) /\ ~IsZero(Sub(num, One))
             THEN [given EXCEPT
                     !.step = TrueDiv(Sub(stop, start), Sub(num, One))]
             ELSE raise
        ELSE IF IsNone(num)
        THEN IF IsNumber(stop) /\ ~IsZero(step)
             THEN LET n == CeilInt(Add(TrueDiv(Sub(stop, start), step), One))
                  IN  [given EXCEPT
                         !.num = n,
                         !.stop = Add(Mul(step, Sub(n, One)), start)]
             ELSE raise
        ELSE IF IsNone(stop)
        THEN [given EXCEPT !.stop = Add(start, Mul(step, Sub(num, One)))]
        ELSE given

\* Time.__init__ after the try block, d what the try block left: the
\* error raised ("" when none) and the object built.  extra starts as the
\* int 0, written <<0>>; extend stores a pair.
TimeStore(d) ==
    IF d.raised
    THEN [err |-> "ValueError", obj |-> NoTime]
    ELSE IF d.num.t # "int"
    THEN [err |-> "TypeError", obj |-> NoTime]
    ELSE [err |-> "",
          obj |-> [start |-> d.start, stop |-> d.stop, step |-> d.step,
                   num |-> d.num, extra |-> <<0>>,
                   extended_start |-> d.start, extended_stop |-> d.stop,
                   extended_num |-> d.num]]

\* Time.__init__
TimeInit(start, step, num, stop) ==
    TimeStore(TimeDerive(start, step, num, stop))

\* an extend that moves the boundaries by the whole padding
TimeExtendByPad(t, extra) ==
    [t EXCEPT !.extra = extra,
              !.extended_start = Sub(t.start, Mul(PyInt(extra[1]), t.step)),
              !.extended_stop = Add(t.stop, Mul(PyInt(extra[2]), t.step)),
              !.extended_num = Add(Add(t.num, PyInt(extra[1])), PyInt(extra[2]))]

\* Time.extend(extra) on object t, extra a pair of ints
TimeExtend(t, extra) ==
    [t EXCEPT !.extra = extra,
              !.extended_start = Sub(t.start, Mul(Sub(PyInt(extra[1]), One), t.step)),
              !.extended_stop = Add(t.stop, Mul(Sub(PyInt(extra[2]), One), t.step)),
              !.extended_num = Add(Add(t.num, PyInt(extra[1])), PyInt(extra[2]))]

NoTimeCall == [op |-> "none", start |-> None, step |-> None, num |-> None,
               stop |-> None, extra |-> <<>>, err |-> ""]

\* arguments a caller hands to Time(...)
StartArgs == {None} \cup {PyInt(v) : v \in 0..MaxTimeVal}
StepArgs ==
    {None, PyFloat(1, 2), PyFloat(1, 10)} \cup {PyInt(v) : v \in 0..MaxTimeVal}
NumArgs == {None, PyFloat(2, 1)} \cup {PyInt(v) : v \in 1..MaxNum}
StopArgs == {None} \cup {PyInt(v) : v \in 0..MaxTimeVal}
PadArgs == (0..MaxPad) \X (0..MaxPad)

\* the call Time(start=..., step=..., num=..., stop=...) has ended as r: a
\* constructor that raises yields no object
TimeReturns(start, step, num, stop, r) ==
    /\ UNCHANGED <<spaceVars, gridVars, slowVars>>
    /\ time' = r.obj
    /\ timeCall' = [op |-> "init", start |-> start, step |-> step,
                    num |-> num, stop |-> stop, extra |-> <<>>,
                    err |-> r.err]

\* t = Time(start=..., step=..., num=..., stop=...)
TimeBuilt(start, step, num, stop) ==
    TimeReturns(start, step, num, stop, TimeInit(start, step, num, stop))

TimeNew(start, step, num, stop) ==
    /\ timeCall.op = "none"
    /\ TimeBuilt(start, step, num, stop)

\* Time(...) from the fields read off the current object, leaving one out
TimeRebuild(omit) ==
    /\ time # NoTime
    /\ TimeBuilt(IF omit = "start" THEN None ELSE time.start,
               IF omit = "step" THEN None ELSE time.step,
               IF omit = "num" THEN None ELSE time.num,
               IF omit = "stop" THEN None ELSE time.stop)

\* t.extend(extra)
TimeExtendCall(extra) ==
    /\ time # NoTime
    /\ time' = TimeExtend(time, extra)
    /\ timeCall' = [NoTimeCall EXCEPT !.op = "extend", !.extra = extra]
    /\ UNCHANGED <<spaceVars, gridVars, slowVars>>

-----------------------------------------------------------------------------
(* domain.py: class SlowTime.                                              *)

NoSlowTime == [start |-> None, stop |-> None, frame_step |-> None,
               frame_rate |-> None, num_frame |-> None, acq_step |-> None,
               acq_rate |-> None, num_acq |-> None]

\* a test that compares one acquisition step with the frame step
AcqTooLargeOneStep(num_acq, acq_step, frame_step) == Gt(acq_step, frame_step)

\* num_acq*acq_step > frame_step
AcqTooLarge(num_acq, acq_step, frame_step) ==
    Gt(Mul(num_acq, acq_step), frame_step)

\* The try block of SlowTime.__init__: frame_step = 1/frame_rate when no
\* frame_step is given, frame_rate = 1/frame_step otherwise.  1/None and a
\* division by zero raise, and the bare except turns either into ValueError.
SlowTimeFrame(frame_rate, frame_step) ==
    IF IsNone(frame_step)
    THEN IF IsNumber(frame_rate) /\ ~IsZero(frame_rate)
         THEN [raised |-> FALSE, frame_rate |-> frame_rate,
               frame_step |-> TrueDiv(One, frame_rate)]
         ELSE [raised |-> TRUE, frame_rate |-> frame_rate,
               frame_step |-> frame_step]
    ELSE IF ~IsZero(frame_step)
         THEN [raised |-> FALSE, frame_rate |-> TrueDiv(One, frame_step),
               frame_step |-> frame_step]
         ELSE [raised |-> TRUE, frame_rate |-> frame_rate,
               frame_step |-> frame_step]

\* The acquisition branch of SlowTime.__init__: with neither acq_step nor
\* acq_rate the grid has one acquisition per frame whatever num_acq was
\* given; otherwise num_acq must be an int and the step or the rate that is
\* missing is the inverse of the other, outside any try block.
SlowTimeAcq(acq_rate, acq_step, num_acq) ==
    LET given == [err |-> "", acq_rate |-> acq_rate, acq_step |-> acq_step,
                  num_acq |-> num_acq]
    IN  IF IsNone(acq_step) /\ IsNone(acq_rate)
        THEN [given EXCEPT !.acq_step = PyInt(0), !.acq_rate = PyInt(-1),
                           !.num_acq = One]
        ELSE IF num_acq.t # "int"
        THEN [given EXCEPT !.err = "TypeError"]
        ELSE IF IsNone(acq_step)
        THEN IF IsZero(acq_rate)
             THEN [given EXCEPT !.err = "ZeroDivisionError"]
             ELSE [given EXCEPT !.acq_step = TrueDiv(One, acq_rate)]
        ELSE IF IsNone(acq_rate)
        THEN IF IsZero(acq_step)
             THEN [given EXCEPT !.err = "ZeroDivisionError"]
             ELSE [given EXCEPT !.acq_rate = TrueDiv(One, acq_step)]
        ELSE given

\* SlowTime.__init__: the error raised ("" when none) and the object built.
SlowTimeInit(frame_rate, acq_rate, frame_step, acq_step, num_frame, num_acq) ==
    LET f == SlowTimeFrame(frame_rate, frame_step)
        a == SlowTimeAcq(acq_rate, acq_step, num_acq)
        start == PyFloat(0, 1)
    IN  IF f.raised
        THEN [err |-> "ValueError", obj |-> NoSlowTime]
        ELSE IF num_frame.t # "int"
        THEN [err |-> "TypeError", obj |-> NoSlowTime]
        ELSE IF a.err # ""
        THEN [err |-> a.err, obj |-> NoSlowTime]
        ELSE IF AcqTooLarge(a.num_acq, a.acq_step, f.frame_step)
        THEN [err |-> "ValueError", obj |-> NoSlowTime]
        ELSE [err |-> "",
              obj |-> [start |-> start,
                       stop |-> Add(start, Mul(f.frame_step,
                                               Sub(num_frame, One))),
                       frame_step |-> f.frame_step,
                       frame_rate |-> f.frame_rate,
                       num_frame |-> num_frame,
                       acq_step |-> a.acq_step,
                       acq_rate |-> a.acq_rate,
                       num_acq |-> a.num_acq]]

\* SlowTime.num
SlowTimeNum(st) == Mul(st.num_frame, st.num_acq)

NoSlowCall == [op |-> "none", frame_rate |-> None, acq_rate |-> None,
               frame_step |-> None, acq_step |-> None, num_frame |-> None,
               num_acq |-> None, err |-> "", ret |-> None]

\* arguments a caller hands to SlowTime(...)
FrameRateArgs == {None, PyFloat(0, 1), PyFloat(2, 1)}
FrameNumArgs == {None, PyFloat(2, 1), PyInt(1), PyInt(2)}
RateArgs == {None, PyFloat(0, 1)} \cup {PyFloat(v, 1) : v \in 1..MaxRate}
FrameStepArgs ==
    {None, PyFloat(0, 1), PyFloat(-1, 1), PyFloat(3, 10)}
    \cup {PyFloat(1, v) : v \in 1..MaxRate}
AcqStepArgs ==
    {None, PyFloat(0, 1), PyFloat(1, 10)} \cup {PyFloat(1, v) : v \in 1..MaxRate}

\* st = SlowTime(frame_rate=..., acq_rate=..., frame_step=..., acq_step=...,
\*               num_frame=..., num_acq=...); a constructor that raises
\* yields no object
SlowTimeNew(frame_rate, acq_rate, frame_step, acq_step, num_frame, num_acq) ==
    LET r == SlowTimeInit(frame_rate, acq_rate, frame_step, acq_step,
                          num_frame, num_acq)
    IN  /\ slowCall.op = "none"
        /\ slow_time' = r.obj
        /\ slowCall' = [op |-> "init", frame_rate |-> frame_rate,
                        acq_rate |-> acq_rate, frame_step |-> frame_step,
                        acq_step |-> acq_step, num_frame |-> num_frame,
                        num_acq |-> num_acq, err |-> r.err, ret |-> None]
        /\ UNCHANGED <<timeVars, spaceVars, gridVars>>

\* st.num
ReadSlowTimeNum ==
    /\ slow_time # NoSlowTime
    /\ slowCall.op = "init"
    /\ slowCall' = [slowCall EXCEPT !.op = "num",
                                    !.ret = SlowTimeNum(slow_time)]
    /\ UNCHANGED <<slow_time, timeVars, spaceVars, gridVars>>


-----------------------------------------------------------------------------
(* domain.py: class Space.                                                 *)
(* Tuples are sequences; a tuple argument that is None is written <<>>     *)
(* (None and () are both falsy in `extra or (0,)*len(shape)`).  The        *)
(* spacing argument is [scalar, vals]: a float, or a tuple of floats.      *)

Min(a, b) == IF a < b THEN a ELSE b

\* (0,)*n
Zeros(n) == [i \in 1..n |-> 0]

NoSpace == [dim |-> 0, shape |-> <<>>, spacing |-> <<>>, extra |-> <<>>,
            absorbing |-> <<>>, origin |-> <<>>, pml_origin |-> <<>>,
            extended_shape |-> <<>>, limit |-> <<>>, extended_limit |-> <<>>]

\* an extended shape padded on one side only
ExtendedShapeOneSide(shape, extra) ==
    [i \in 1..Min(Len(shape), Len(extra)) |-> shape[i] + extra[i]]

\* dim + 2*added for dim, added in zip(shape, extra)
ExtendedShape(shape, extra) ==
    [i \in 1..Min(Len(shape), Len(extra)) |-> shape[i] + 2 * extra[i]]

\* Space.__init__
SpaceInit(shape, spacingArg, extraArg, absorbingArg) ==
    LET spacing == IF spacingArg.scalar /\ spacingArg.vals[1].t = "float"
                   THEN [i \in 1..Len(shape) |-> spacingArg.vals[1]]
                   ELSE spacingArg.vals
        extra == IF extraArg = <<>> THEN Zeros(Len(shape)) ELSE extraArg
        absorbing == IF absorbingArg = <<>> THEN Zeros(Len(shape)) ELSE absorbingArg
        dim == Len(shape)
        origin == Zeros(dim)
    IN  [dim |-> dim, shape |-> shape, spacing |-> spacing, extra |-> extra,
         absorbing |-> absorbing, origin |-> origin,
         pml_origin |->
            [i \in 1..Min(dim, Min(Len(spacing), Len(extra))) |->
                Sub(PyInt(origin[i]), Mul(spacing[i], PyInt(extra[i])))],
         extended_shape |-> ExtendedShape(shape, extra),
         limit |-> [i \in 1..dim |-> Mul(spacing[i], PyInt(shape[i] - 1))],
         extended_limit |->
            [i \in 1..Min(dim, Min(Len(spacing), Len(extra))) |->
                Add(PyInt(origin[i]),
                    Mul(spacing[i], PyInt(shape[i] + extra[i] - 1)))]]

\* Space.inner: slice(extra, extra + shape) per axis
Inner(s) ==
    [i \in 1..Min(Len(s.shape), Len(s.extra)) |->
        [start |-> s.extra[i], stop |-> s.extra[i] + s.shape[i]]]

\* the indices of an axis of length n that a slice with 0 <= start, stop selects
SliceIndices(sl, n) == {k \in 0..(n - 1) : sl.start <= k /\ k < sl.stop}

\* the index tuples of an array of the given shape
Cells(shape) ==
    IF Len(shape) = 0 THEN {}
    ELSE LET top == CHOOSE m \in {shape[i] : i \in 1..Len(shape)} :
                        \A i \in 1..Len(shape) : shape[i] <= m
         IN  {c \in [1..Len(shape) -> 0..(top - 1)] :
                \A i \in 1..Len(shape) : c[i] < shape[i]}

\* Space.inner_mask: zeros of extended_shape, set to 1 on the inner slices
InnerMask(s) ==
    LET sl == Inner(s)
    IN  [c \in Cells(s.extended_shape) |->
            IF \A i \in 1..Len(sl) : c[i] \in SliceIndices(sl[i], s.extended_shape[i])
            THEN 1 ELSE 0]

NoSpaceCall == [op |-> "none", shape |-> <<>>,
                spacing |-> [scalar |-> FALSE, vals |-> <<>>],
                extra |-> <<>>, absorbing |-> <<>>]

\* tuples of n values from S
Tuples(n, S) == [1..n -> S]

ShapeArgs == UNION {Tuples(n, 1..MaxShape) : n \in 1..MaxSpaceDim}
ExtraArgs(n) == {<<>>} \cup Tuples(n, 0..MaxExtra)
\* absorbing widths up to extra: none given, the whole padding, or one cell
AbsorbingArgs(extraArg) ==
    {<<>>, extraArg, [i \in 1..Len(extraArg) |-> Min(1, extraArg[i])]}
SpacingArgs(n) ==
    { [scalar |-> TRUE, vals |-> <<PyFloat(1, 2)>>],
      [scalar |-> FALSE, vals |-> [i \in 1..n |-> PyFloat(2, 1)]] }

\* s = Space(shape=..., spacing=..., extra=..., absorbing=...)
SpaceNew(shape, spacingArg, extraArg, absorbingArg) ==
    /\ spaceCall.op = "none"
    /\ space' = SpaceInit(shape, spacingArg, extraArg, absorbingArg)
    /\ spaceCall' = [op |-> "init", shape |-> shape, spacing |-> spacingArg,
                     extra |-> extraArg, absorbing |-> absorbingArg]
    /\ UNCHANGED <<inner, inner_mask, resampled, timeVars, gridVars, slowVars>>

\* s.inner
ReadInner ==
    /\ space # NoSpace
    /\ inner' = Inner(space)
    /\ UNCHANGED <<space, spaceCall, inner_mask, resampled, timeVars, gridVars,
                   slowVars>>

\* s.inner_mask
ReadInnerMask ==
    /\ space # NoSpace
    /\ inner_mask' = InnerMask(space)
    /\ UNCHANGED <<space, spaceCall, inner, resampled, timeVars, gridVars,
                   slowVars>>

\* the spacing of resample as a tuple: (spacing,)*self.dim for one float
ResampleSpacing(s, spacingArg) ==
    IF spacingArg.scalar /\ spacingArg.vals[1].t = "float"
    THEN [i \in 1..s.dim |-> spacingArg.vals[1]]
    ELSE spacingArg.vals

\* self.size/spacing + 1 on axis i
ResampleCells(s, spacing, i) == Add(TrueDiv(s.limit[i], spacing[i]), One)

\* self.spacing*(pad - 1)/spacing + 1 on axis i, pad self.extra or
\* self.absorbing
ResamplePad(s, pad, spacing, i) ==
    Add(TrueDiv(Mul(s.spacing[i], PyInt(pad[i] - 1)), spacing[i]), One)

\* Space.resample on object s: the new shape, and the extra and absorbing
\* that are not given, are computed from the physical sizes as
\* (size/spacing + 1).astype(int); the result is a new Space
Resample(s, spacingArg, extraArg, absorbingArg) ==
    LET spacing == ResampleSpacing(s, spacingArg)
        shape == [i \in 1..s.dim |-> TruncInt(ResampleCells(s, spacing, i))]
        extra == IF extraArg = <<>>
                 THEN [i \in 1..s.dim |->
                         TruncInt(ResamplePad(s, s.extra, spacing, i))]
                 ELSE extraArg
        absorbing == IF absorbingArg = <<>>
                     THEN [i \in 1..s.dim |->
                             TruncInt(ResamplePad(s, s.absorbing, spacing, i))]
                     ELSE absorbingArg
    IN  SpaceInit(shape, [scalar |-> FALSE, vals |-> spacing], extra, absorbing)

NoResample == [op |-> "none", spacing |-> [scalar |-> FALSE, vals |-> <<>>],
               extra |-> <<>>, absorbing |-> <<>>, ret |-> NoSpace]

\* the new spacings handed to resample: one float, or one float per axis
NewSpacingArgs(n) ==
    { [scalar |-> TRUE, vals |-> <<PyFloat(3, 4)>>],
      [scalar |-> TRUE, vals |-> <<PyFloat(4, 1)>>],
      [scalar |-> FALSE, vals |-> [i \in 1..n |-> PyFloat(1, i)]] }
\* the extra and absorbing handed to resample: omitted, or one cell per axis
PaddingArgs(n) == {<<>>, [i \in 1..n |-> 1]}

\* r = s.resample(spacing, extra=..., absorbing=...)
SpaceResample(spacingArg, extraArg, absorbingArg) ==
    /\ space # NoSpace
    /\ spacingArg \in NewSpacingArgs(space.dim)
    /\ extraArg \in PaddingArgs(space.dim)
    /\ absorbingArg \in PaddingArgs(space.dim)
    /\ resampled' = [op |-> "resample", spacing |-> spacingArg,
                     extra |-> extraArg, absorbing |-> absorbingArg,
                     ret |-> Resample(space, spacingArg, extraArg,
                                      absorbingArg)]
    /\ UNCHANGED <<space, spaceCall, inner, inner_mask, timeVars, gridVars,
                   slowVars>>


-----------------------------------------------------------------------------
(* devito.py: the SubDomain subclasses and GridDevito.set_problem.         *)
(* A subdomain object is [kind, name, dim, sides, extra]: what its         *)
(* __init__ stores.  Axes are numbered from 0 as in the source.            *)

Sides == <<"left", "right">>

FullDomain(extra) ==
    [kind |-> "full", name |-> "full_domain", dim |-> 0, sides |-> <<>>,
     extra |-> extra]

InteriorDomain(extra) ==
    [kind |-> "interior", name |-> "interior_domain", dim |-> 0,
     sides |-> <<>>, extra |-> extra]

PMLSide(extra, dim, side) ==
    [kind |-> "side", name |-> "pml_side_" \o side \o ToString(dim),
     dim |-> dim, sides |-> <<side>>, extra |-> extra]

PMLCentre(extra, dim, side) ==
    [kind |-> "centre", name |-> "pml_centre_" \o side \o ToString(dim),
     dim |-> dim, sides |-> <<side>>, extra |-> extra]

PMLPartial(extra, dim, side) ==
    [kind |-> "partial", name |-> "pml_partial_" \o side \o ToString(dim),
     dim |-> dim, sides |-> <<side>>, extra |-> extra]

\* '_'.join(sides)
RECURSIVE JoinSides(_)
JoinSides(sides) ==
    IF Len(sides) = 0 THEN ""
    ELSE IF Len(sides) = 1 THEN sides[1]
    ELSE sides[1] \o "_" \o JoinSides(Tail(sides))

PMLCorner(extra, sides) ==
    [kind |-> "corner", name |-> "pml_corner_" \o JoinSides(sides), dim |-> 0,
     sides |-> sides, extra |-> extra]

\* What define(dimensions) maps one dimension to: the dimension itself,
\* ('middle', a, b), or (side, n)
Whole == [sel |-> "dimension", a |-> 0, b |-> 0]
Middle(a, b) == [sel |-> "middle", a |-> a, b |-> b]
Thickness(side, n) == [sel |-> side, a |-> n, b |-> 0]

\* sub.define(dimensions) for n dimensions, as a tuple indexed by axis + 1
Define(sub, n) ==
    LET whole == [i \in 1..n |-> Whole]
        middle == [i \in 1..Min(n, Len(sub.extra)) |->
                      Middle(sub.extra[i], sub.extra[i])]
        side == Thickness(sub.sides[1], sub.extra[sub.dim + 1])
    IN  IF sub.kind = "full" THEN whole
        ELSE IF sub.kind = "interior" THEN middle
        ELSE IF sub.kind = "side" THEN [whole EXCEPT ![sub.dim + 1] = side]
        ELSE IF sub.kind = "centre" THEN [middle EXCEPT ![sub.dim + 1] = side]
        ELSE IF sub.kind = "corner"
        THEN [i \in 1..Min(n, Min(Len(sub.sides), Len(sub.extra))) |->
                 Thickness(sub.sides[i], sub.extra[i])]
        ELSE [[middle EXCEPT ![1] = Whole] EXCEPT ![sub.dim + 1] = side]

\* the indices k of an axis of the given size that a selector keeps
InSelector(sel, k, size) ==
    IF sel.sel = "dimension" THEN 0 <= k /\ k < size
    ELSE IF sel.sel = "middle" THEN sel.a <= k /\ k < size - sel.b
    ELSE IF sel.sel = "left" THEN 0 <= k /\ k < sel.a
    ELSE size - sel.a <= k /\ k < size

\* cell c of a grid of the given shape lies in the subdomain
InSubdomain(sub, c, shape) ==
    LET domain == Define(sub, Len(shape))
    IN  \A i \in 1..Len(shape) : InSelector(domain[i], c[i], shape[i])

\* list(itertools.product(['left', 'right'], repeat=n)): the last axis
\* varies fastest
RECURSIVE Product(_)
Product(n) ==
    IF n = 0 THEN << <<>> >>
    ELSE LET rest == Product(n - 1)
             m == Len(rest)
         IN  [k \in 1..(2 * m) |->
                <<Sides[((k - 1) \div m) + 1]>> \o rest[((k - 1) % m) + 1]]

\* the tuples the loop over range(space.dim) accumulates, up to axis n - 1
RECURSIVE PmlLeft(_, _)
PmlLeft(extra, n) ==
    IF n = 0 THEN <<>>
    ELSE PmlLeft(extra, n - 1) \o <<PMLSide(extra, n - 1, "left")>>

RECURSIVE PmlRight(_, _)
PmlRight(extra, n) ==
    IF n = 0 THEN <<>>
    ELSE PmlRight(extra, n - 1) \o <<PMLSide(extra, n - 1, "right")>>

\* a loop that adds one centre region per axis
RECURSIVE PmlCentresLeft(_, _)
PmlCentresLeft(extra, n) ==
    IF n = 0 THEN <<>>
    ELSE PmlCentresLeft(extra, n - 1) \o <<PMLCentre(extra, n - 1, "left")>>

RECURSIVE PmlCentres(_, _)
PmlCentres(extra, n) ==
    IF n = 0 THEN <<>>
    ELSE PmlCentres(extra, n - 1) \o
         <<PMLCentre(extra, n - 1, "left"), PMLCentre(extra, n - 1, "right")>>

RECURSIVE PmlPartials(_, _)
PmlPartials(extra, n) ==
    IF n = 0 THEN <<>>
    ELSE PmlPartials(extra, n - 1) \o
         <<PMLPartial(extra, n - 1, "left"), PMLPartial(extra, n - 1, "right")>>

PmlCorners(extra, n) ==
    LET sides == Product(n)
    IN  [k \in 1..Len(sides) |-> PMLCorner(extra, sides[k])]

NoRegions == [full |-> <<>>, interior |-> <<>>, pml |-> <<>>, pml_left |-> <<>>,
              pml_right |-> <<>>, pml_centres |-> <<>>, pml_corners |-> <<>>,
              pml_partials |-> <<>>]

\* the attributes set_problem assigns when it builds the grid; full and
\* interior are held as one-element tuples
BuildRegions(sp) ==
    LET extra == sp.absorbing
        partials == PmlPartials(extra, sp.dim)
    IN  [full |-> <<FullDomain(extra)>>,
         interior |-> <<InteriorDomain(extra)>>,
         pml |-> partials,
         pml_left |-> PmlLeft(extra, sp.dim),
         pml_right |-> PmlRight(extra, sp.dim),
         pml_centres |-> PmlCentres(extra, sp.dim),
         pml_corners |-> PmlCorners(extra, sp.dim),
         pml_partials |-> partials]

\* a subdomain list without the side regions
SubdomainsNoSides(r) ==
    r.full \o r.interior \o r.pml \o r.pml_centres \o r.pml_corners

\* subdomains=(self.full, self.interior,) + self.pml + self.pml_left +
\*            self.pml_right + self.pml_centres + self.pml_corners
Subdomains(r) ==
    r.full \o r.interior \o r.pml \o r.pml_left \o r.pml_right \o
    r.pml_centres \o r.pml_corners

\* GridDevito.grid: None, or the grid set_problem builds
NoGrid == [state |-> "None", extent |-> <<>>, shape |-> <<>>, origin |-> <<>>,
           subdomains |-> <<>>]

\* devito.Grid(extent=extended_extent, shape=space.extended_shape,
\*             origin=space.pml_origin, subdomains=...)
BuildGrid(sp, r) ==
    [state |-> "built",
     extent |-> [i \in 1..sp.dim |->
                    Mul(sp.spacing[i], PyInt(sp.extended_shape[i] - 1))],
     shape |-> sp.extended_shape,
     origin |-> sp.pml_origin,
     subdomains |-> Subdomains(r)]


-----------------------------------------------------------------------------
(* devito.py: GridDevito, its cache `vars` and the _cached decorator.      *)
(* A declaration is an object of the backend,                              *)
(*   [ctor, name, id, data, nt, save]:                                     *)
(* the constructor that made it, its name, its identity, its _data         *)
(* attribute ("None" or "buffer") and the nt and save arguments it was     *)
(* given (0 when not given).  Declarations of different names are          *)
(* different objects; id tells a declaration from the one it replaces      *)
(* under its name.  The space and time orders, which are passed through to *)
(* the constructors, are left out.                                         *)

Names == {"p", "m"}

NoObject == [ctor |-> "", name |-> "", id |-> 0, data |-> "", nt |-> 0,
             save |-> 0]

NoProblem == [space |-> NoSpace, time |-> NoTime]

\* what a call leaves behind: the cache, the object returned (NoObject for
\* None), the error raised ("" when none) and the backend constructors it
\* invoked, in order: those of the declarations (devito.Function, ...) and
\* those of the dimensions a declaration is built on (devito.Dimension,
\* devito.ConditionalDimension)
Result(sv, ret, err, built) ==
    [vars |-> sv, ret |-> ret, err |-> err, built |-> built]

\* the constructors of the backend that build a declaration
Declarations == {"Function", "TimeFunction", "SparseTimeFunction",
                 "PrecomputedSparseTimeFunction"}

\* the constructor of a declaration: a new object, distinct from the one the
\* cache holds under the name, with no buffer allocated yet
Construct(sv, ctor, name, nt, save) ==
    Result(sv,
           [ctor |-> ctor, name |-> name,
            id |-> IF sv[name].id = 1 THEN 2 ELSE 1,
            data |-> "None", nt |-> nt, save |-> save],
           "", <<ctor>>)

\* a cached_wrapper that never looks the name up
CachedNoLookup(sv, name, cached, body) ==
    IF body.err # ""
    THEN body
    ELSE [body EXCEPT !.vars = [body.vars EXCEPT ![name] = body.ret]]

\* cached_wrapper of _cached: body is what func(self, *args, **kwargs) does
\* from the cache sv
Cached(sv, name, cached, body) ==
    IF cached /\ sv[name] # NoObject
    THEN Result(sv, sv[name], "", <<>>)
    ELSE IF body.err # ""
    THEN body
    ELSE [body EXCEPT !.vars = [body.vars EXCEPT ![name] = body.ret]]

\* GridDevito.function
Function(sv, name, cached) ==
    Cached(sv, name, cached, Construct(sv, "Function", name, 0, 0))

\* GridDevito.time_function, save the save= keyword (0 when not given)
TimeFunction(sv, name, cached, save) ==
    Cached(sv, name, cached, Construct(sv, "TimeFunction", name, 0, save))

\* r after the backend constructors in before, which the body invoked first
After(before, r) == [r EXCEPT !.built = before \o @]

\* a body that falls back to linear interpolation for an unknown kind
SparseTimeFunctionBodyLenient(sv, name, interpolation_type) ==
    IF problem = NoProblem
    THEN Result(sv, NoObject, "AttributeError", <<>>)
    ELSE IF grid.state = "None"
    THEN Result(sv, NoObject, "AttributeError", <<"Dimension">>)
    ELSE IF interpolation_type = "hicks"
    THEN After(<<"Dimension">>,
               Construct(sv, "PrecomputedSparseTimeFunction", name,
                         problem.time.extended_num.n, 0))
    ELSE After(<<"Dimension">>,
               Construct(sv, "SparseTimeFunction", name,
                         problem.time.extended_num.n, 0))

\* the body of GridDevito.sparse_time_function: self._problem.time is read
\* first, then p_dim = devito.Dimension(...) is built, then self.grid is
\* read, and only then the interpolation kind is looked at
SparseTimeFunctionBody(sv, name, interpolation_type) ==
    IF problem = NoProblem
    THEN Result(sv, NoObject, "AttributeError", <<>>)
    ELSE IF grid.state = "None"
    THEN Result(sv, NoObject, "AttributeError", <<"Dimension">>)
    ELSE IF interpolation_type = "linear"
    THEN After(<<"Dimension">>,
               Construct(sv, "SparseTimeFunction", name,
                         problem.time.extended_num.n, 0))
    ELSE IF interpolation_type = "hicks"
    THEN After(<<"Dimension">>,
               Construct(sv, "PrecomputedSparseTimeFunction", name,
                         problem.time.extended_num.n, 0))
    ELSE Result(sv, NoObject, "ValueError", <<"Dimension">>)

\* GridDevito.sparse_time_function
SparseTimeFunction(sv, name, cached, interpolation_type) ==
    Cached(sv, name, cached, SparseTimeFunctionBody(sv, name, interpolation_type))

\* the body of GridDevito.undersampled_time_function: it builds
\* time_under = devito.ConditionalDimension(...) and then calls
\* self.time_function, which carries no cached keyword and so runs with
\* cached=True
UndersampledTimeFunctionBody(sv, name, factor) ==
    IF problem = NoProblem \/ grid.state = "None"
    THEN Result(sv, NoObject, "AttributeError", <<>>)
    ELSE LET buffer_size ==
                 (problem.time.extended_num.n + factor - 1) \div factor
         IN  After(<<"ConditionalDimension">>,
                   TimeFunction(sv, name, TRUE, buffer_size))

\* GridDevito.undersampled_time_function
UndersampledTimeFunction(sv, name, cached, factor) ==
    Cached(sv, name, cached, UndersampledTimeFunctionBody(sv, name, factor))

\* a deallocate without the `name in self.vars` test
DeallocateUnguarded(sv, name) ==
    IF sv[name] # NoObject
    THEN Result([sv EXCEPT ![name].data = "None"], NoObject, "", <<>>)
    ELSE Result(sv, NoObject, "KeyError", <<>>)

\* GridDevito.deallocate: the entry stays in vars, its _data becomes None
Deallocate(sv, name) ==
    IF sv[name] # NoObject
    THEN Result([sv EXCEPT ![name].data = "None"], NoObject, "", <<>>)
    ELSE Result(sv, NoObject, "", <<>>)

\* the latest call: ret is the id of the object returned, 0 for None
NoCall == [op |-> "none", name |-> "", cached |-> TRUE, ret |-> 0,
           err |-> "", built |-> <<>>]

Kinds == {"linear", "hicks", "nearest"}

\* a problem handed to set_problem: n axes of two cells, two cells of
\* padding of which one absorbs, and a time grid of three steps padded by
\* (1, 1).  The spacing is 0.5, with which the arithmetic on the nodes is
\* exact, or when fine 0.1, with which it rounds
ProblemArg(n, fine) ==
    [space |-> SpaceInit([i \in 1..n |-> 2],
                         [scalar |-> TRUE,
                          vals |-> <<IF fine THEN PyFloat(1, 10)
                                     ELSE PyFloat(1, 2)>>],
                         [i \in 1..n |-> 2], [i \in 1..n |-> 1]),
     time |-> TimeExtend(TimeInit(PyInt(0), PyInt(1), PyInt(3), None).obj,
                         <<1, 1>>)]

\* the problems of every number of axes and either spacing
ProblemArgs == {ProblemArg(n, fine) : n \in 1..MaxDim, fine \in BOOLEAN}

\* a call on the cache returns or raises: the state and the call record
Returns(op, name, cached, r) ==
    /\ self_vars' = r.vars
    /\ call' = [op |-> op, name |-> name, cached |-> cached, ret |-> r.ret.id,
                err |-> r.err, built |-> r.built]
    /\ UNCHANGED <<problem, grid, regions, hicks, timeVars, spaceVars, slowVars>>

\* grid.set_problem(p): any problem replaces _problem; the grid and the
\* regions are built from the space of the first problem only and are kept
\* when a later problem has another space
SetProblem(p) ==
    /\ problem' = p
    /\ IF grid.state = "None"
       THEN /\ regions' = BuildRegions(p.space)
            /\ grid' = BuildGrid(p.space, BuildRegions(p.space))
       ELSE UNCHANGED <<grid, regions>>
    /\ call' = [NoCall EXCEPT !.op = "set_problem"]
    /\ UNCHANGED <<self_vars, hicks, timeVars, spaceVars, slowVars>>

\* grid.function(name, cached=cached); the backend needs a grid
CallFunction(name, cached) ==
    /\ grid.state # "None"
    /\ Returns("function", name, cached, Function(self_vars, name, cached))

\* grid.time_function(name, cached=cached)
CallTimeFunction(name, cached) ==
    /\ grid.state # "None"
    /\ Returns("time_function", name, cached,
               TimeFunction(self_vars, name, cached, 0))

\* grid.sparse_time_function(name, coordinates=..., interpolation_type=kind,
\*                           cached=cached)
CallSparseTimeFunction(name, cached, kind) ==
    /\ kind \in Kinds
    /\ Returns("sparse_time_function", name, cached,
               SparseTimeFunction(self_vars, name, cached, kind))

\* grid.undersampled_time_function(name, factor, cached=cached)
CallUndersampledTimeFunction(name, cached, factor) ==
    /\ factor >= 1
    /\ Returns("undersampled_time_function", name, cached,
               UndersampledTimeFunction(self_vars, name, cached, factor))

\* grid.deallocate(name)
CallDeallocate(name) ==
    /\ name \in Names
    /\ Returns("deallocate", name, TRUE, Deallocate(self_vars, name))

\* the backend allocates the buffer of a declaration when its data is first
\* used: grid.vars[name].data
AccessData(name) ==
    /\ self_vars[name] # NoObject
    /\ self_vars[name].data = "None"
    /\ self_vars' = [self_vars EXCEPT ![name].data = "buffer"]
    /\ call' = [NoCall EXCEPT !.op = "data", !.name = name,
                              !.ret = self_vars[name].id]
    /\ UNCHANGED <<problem, grid, regions, hicks, timeVars, spaceVars, slowVars>>

-----------------------------------------------------------------------------
(* devito.py: GridDevito.calculate_hicks.                                  *)

(* coordinates is an array of points, one row of space.dim floats per      *)
(* point.  A value of np.sinc or of the Bessel function is kept as a term,  *)
(* the double the library returns at the double x or w, written as that    *)
(* double with another tag t:                                              *)
(*   "sinc"         sin(pi*x)/(pi*x) at x                                  *)
(*   "kaiser"       iv(0, kaiser_b*sqrt(1 - w))/kaiser_den at w            *)
(*   "sinc*kaiser"  the product of the two at x                            *)
(* The term sinc at an integer k # 0 is sin(y)/y for y the double nearest  *)
(* to pi*k: y is not a multiple of pi, so the term is a residue of the     *)
(* order of 1e-17 and not 0.                                               *)

NoHicks == [space |-> NoSpace, coordinates |-> <<>>, offsets |-> <<>>,
            reference_gridpoints |-> <<>>, coefficients |-> <<>>]

kaiser_half_width == 3

\* kaiser_half_width/0.99
kaiser_extended_width == TrueDiv(PyInt(kaiser_half_width), PyFloat(99, 100))

\* np.sinc(x): x == 0 is replaced by 1e-20, for which sin(y)/y is 1.0;
\* elsewhere sin(pi*x)/(pi*x) in doubles
Sinc(x) ==
    IF IsZero(x) THEN PyFloat(1, 1)
    ELSE [ToFloat(x) EXCEPT !.t = "sinc"]

\* (x / kaiser_extended_width)**2
KaiserSquare(x) ==
    LET q == TrueDiv(x, kaiser_extended_width)
    IN  Mul(q, q)

\* weights = (x / kaiser_extended_width)**2; weights[weights > 1] = 1;
\* weights = iv(0, kaiser_b * np.sqrt(1 - weights)) / kaiser_den, which is
\* iv(0, kaiser_b)/iv(0, kaiser_b) = 1.0 at weights = 0
KaiserWeights(x) ==
    LET w == IF Gt(KaiserSquare(x), PyFloat(1, 1)) THEN PyFloat(1, 1)
             ELSE KaiserSquare(x)
    IN  IF IsZero(w) THEN PyFloat(1, 1)
        ELSE [w EXCEPT !.t = "kaiser"]

\* np.sinc(x) * weights
HicksCoefficient(x) ==
    LET sinc == Sinc(x)
        weights == KaiserWeights(x)
    IN  IF IsNumber(sinc) /\ IsNumber(weights) THEN Mul(sinc, weights)
        ELSE [ToFloat(x) EXCEPT !.t = "sinc*kaiser"]

\* reference gridpoints that are returned as they were rounded
ReferenceNoShift(reference_gridpoint) == reference_gridpoint

\* reference_gridpoints - kaiser_half_width
ReferenceShift(reference_gridpoint) == reference_gridpoint - kaiser_half_width

\* (coordinates - pml_origin)/spacing of one point on axis i
GridCoordinate(sp, point, i) ==
    TrueDiv(Sub(point[i], sp.pml_origin[i]), sp.spacing[i])

\* GridDevito.calculate_hicks(coordinates) for the space sp it reads from
\* self._problem: that space and the offsets it computes on the way, and the
\* two arrays it returns; the coefficients of a point and an axis are
\* indexed 0..2*kaiser_half_width
CalculateHicks(sp, coordinates) ==
    LET num == Len(coordinates)
        grid_coordinates ==
            [p \in 1..num |-> [i \in 1..sp.dim |->
                GridCoordinate(sp, coordinates[p], i)]]
        reference_gridpoints ==
            [p \in 1..num |-> [i \in 1..sp.dim |->
                NpRound(grid_coordinates[p][i])]]
        offsets ==
            [p \in 1..num |-> [i \in 1..sp.dim |->
                Sub(grid_coordinates[p][i],
                    PyInt(reference_gridpoints[p][i]))]]
        r == 2 * kaiser_half_width + 1
    IN  [space |-> sp,
         coordinates |-> coordinates,
         offsets |-> offsets,
         reference_gridpoints |->
            [p \in 1..num |-> [i \in 1..sp.dim |->
                ReferenceShift(reference_gridpoints[p][i])]],
         coefficients |->
            [p \in 1..num |-> [i \in 1..sp.dim |->
                [index \in 0..(r - 1) |->
                    HicksCoefficient(
                        Add(PyInt(index - kaiser_half_width),
                            offsets[p][i]))]]]]

\* the coordinates handed to calculate_hicks, numbered by j: the quarters
\* j/4, which are the nodes and the midpoints of a grid of spacing 0.5, or
\* the doubles -0.2 + j*0.1, which are the nodes of a grid of spacing 0.1
\* padded by two cells
CoordArg(tenths, j) ==
    IF tenths THEN Add(PyFloat(-2, 10), Mul(PyInt(j), PyFloat(1, 10)))
    ELSE PyFloat(j, 4)

\* the points handed to calculate_hicks: n coordinates of one kind, which
\* advance from axis to axis by one node of the grid they are nodes of, so
\* that a point lies on a node on every axis or on none
PointArgs ==
    {[i \in 1..n |-> CoordArg(tenths, IF tenths THEN k + i + 1
                                      ELSE k + 2 * (i - 1))] :
        n \in 0..MaxDim, k \in (-MaxCoord)..MaxCoord, tenths \in BOOLEAN}

\* grid.calculate_hicks(coordinates), once in a run, for coordinates with
\* one column per axis; without a problem there is no space to read
CallCalculateHicks(coordinates) ==
    /\ hicks = NoHicks
    /\ call.op # "calculate_hicks"
    /\ \A p \in 1..Len(coordinates) :
         Len(coordinates[p]) = problem.space.dim
    /\ IF problem = NoProblem
       THEN /\ call' = [NoCall EXCEPT !.op = "calculate_hicks",
                                      !.err = "AttributeError"]
            /\ UNCHANGED hicks
       ELSE /\ call' = [NoCall EXCEPT !.op = "calculate_hicks"]
            /\ hicks' = CalculateHicks(problem.space, coordinates)
    /\ UNCHANGED <<problem, grid, regions, self_vars, timeVars, spaceVars,
                   slowVars>>


-----------------------------------------------------------------------------
(* The specifications.                                                     *)

IdleTime == time = NoTime /\ timeCall = NoTimeCall
IdleSpace == /\ space = NoSpace /\ spaceCall = NoSpaceCall
             /\ inner = <<>> /\ inner_mask = <<>>
             /\ resampled = NoResample
IdleGrid == /\ problem = NoProblem /\ grid = NoGrid /\ regions = NoRegions
            /\ self_vars = [n \in Names |-> NoObject]
            /\ call = NoCall /\ hicks = NoHicks
IdleSlowTime == slow_time = NoSlowTime /\ slowCall = NoSlowCall

InitTime == IdleTime /\ IdleSpace /\ IdleGrid /\ IdleSlowTime

NextTime ==
    \/ \E start \in StartArgs, step \in StepArgs, num \in NumArgs,
          stop \in StopArgs : TimeNew(start, step, num, stop)
    \/ \E omit \in {"start", "step", "num", "stop"} : TimeRebuild(omit)
    \/ \E extra \in PadArgs : TimeExtendCall(extra)

SpecTime == InitTime /\ [][NextTime]_vars

InitSpace == IdleTime /\ IdleSpace /\ IdleGrid /\ IdleSlowTime

NextSpace ==
    \/ \E shape \in ShapeArgs :
          \E spacingArg \in SpacingArgs(Len(shape)),
             extraArg \in ExtraArgs(Len(shape)) :
              \E absorbingArg \in AbsorbingArgs(extraArg) :
                  SpaceNew(shape, spacingArg, extraArg, absorbingArg)
    \/ ReadInner
    \/ ReadInnerMask

SpecSpace == InitSpace /\ [][NextSpace]_vars

InitResample == IdleTime /\ IdleSpace /\ IdleGrid /\ IdleSlowTime

NextResample ==
    \/ \E shape \in ShapeArgs :
          \E spacingArg \in SpacingArgs(Len(shape)),
             extraArg \in ExtraArgs(Len(shape)) :
              \E absorbingArg \in AbsorbingArgs(extraArg) :
                  SpaceNew(shape, spacingArg, extraArg, absorbingArg)
    \/ \E n \in 1..MaxSpaceDim :
          \E spacingArg \in NewSpacingArgs(n), extraArg \in PaddingArgs(n),
             absorbingArg \in PaddingArgs(n) :
              SpaceResample(spacingArg, extraArg, absorbingArg)

SpecResample == InitResample /\ [][NextResample]_vars

\* GridDevito(space_order, time_order)
InitGrid ==
    /\ IdleTime /\ IdleSpace /\ IdleSlowTime
    /\ hicks = NoHicks
    /\ problem = NoProblem
    /\ grid = NoGrid
    /\ regions = NoRegions
    /\ self_vars = [n \in Names |-> NoObject]
    /\ call = NoCall

\* the cached methods read the time grid of the problem and whether a grid
\* is built, never the space: the object is handed the two problems of one
\* axis, whose spaces differ, in any order and any number of times
NextGrid ==
    \/ \E fine \in BOOLEAN : SetProblem(ProblemArg(1, fine))
    \/ \E name \in Names, cached \in BOOLEAN : CallFunction(name, cached)
    \/ \E name \in Names, cached \in BOOLEAN : CallTimeFunction(name, cached)
    \/ \E name \in Names, cached \in BOOLEAN, kind \in Kinds :
          CallSparseTimeFunction(name, cached, kind)
    \/ \E name \in Names, cached \in BOOLEAN, factor \in 1..MaxFactor :
          CallUndersampledTimeFunction(name, cached, factor)
    \/ \E name \in Names : CallDeallocate(name)
    \/ \E name \in Names : AccessData(name)

SpecGrid == InitGrid /\ [][NextGrid]_vars

InitHicks == IdleTime /\ IdleSpace /\ IdleGrid /\ IdleSlowTime

\* set_problem may be called again, with a problem of another space, before
\* and after calculate_hicks
NextHicks ==
    \/ \E p \in ProblemArgs : SetProblem(p)
    \/ \E point \in PointArgs : CallCalculateHicks(<<point>>)

SpecHicks == InitHicks /\ [][NextHicks]_vars

InitSlowTime == IdleTime /\ IdleSpace /\ IdleGrid /\ IdleSlowTime

NextSlowTime ==
    \/ \E frame_rate \in FrameRateArgs, acq_rate \in RateArgs,
          frame_step \in FrameStepArgs, acq_step \in AcqStepArgs,
          num_frame \in FrameNumArgs, num_acq \in NumArgs :
          SlowTimeNew(frame_rate, acq_rate, frame_step, acq_step,
                      num_frame, num_acq)
    \/ ReadSlowTimeNum

SpecSlowTime == InitSlowTime /\ [][NextSlowTime]_vars

-----------------------------------------------------------------------------
(* The claims about the cache of GridDevito, under SpecGrid.               *)

DeclOps == {"function", "time_function", "sparse_time_function",
            "undersampled_time_function"}

IsDeclaration(ctor) == ctor \in Declarations

\* the declarations a call constructed, in order: the constructors it
\* invoked less those of dimensions
Declared(built) == SelectSeq(built, IsDeclaration)

\* C1 (as stated): after deallocate(name) of a name that has a cache entry,
\* the next reuse-enabled declaration call for that name constructs a
\* declaration again and stores it instead of returning the released one.
C1_ReleaseThenRebuild ==
    [][(/\ call.op = "deallocate"
        /\ self_vars[call.name] # NoObject
        /\ call'.op \in DeclOps
        /\ call'.name = call.name
        /\ call'.cached)
       => (/\ Declared(call'.built) # <<>>
           /\ call'.ret # self_vars[call.name].id)]_vars

\* C2 (as stated): for each of the four declaration methods, a call with
\* cached=False for a name that already has a cache entry, when it returns,
\* has constructed exactly one declaration, stored it under the name and
\* returned it, never the entry stored before.
C2_NoReuseBuilds ==
    [][(/\ call'.op \in DeclOps
        /\ ~call'.cached
        /\ call'.err = ""
        /\ self_vars[call'.name] # NoObject)
       => (/\ Len(Declared(call'.built)) = 1
           /\ self_vars'[call'.name].id = call'.ret
           /\ call'.ret # self_vars[call'.name].id)]_vars

\* two declaration calls in a row for one name, both with reuse enabled
ReuseTwice ==
    /\ call.op \in DeclOps
    /\ call.cached
    /\ call'.op \in DeclOps
    /\ call'.cached
    /\ call'.name = call.name

\* a reuse-enabled call that finds the entry of its name: it invokes no
\* constructor of the backend, returns the entry and leaves the cache as it
\* is
ReuseFindsEntry ==
    /\ call'.built = <<>>
    /\ call'.err = ""
    /\ call'.ret = self_vars[call'.name].id
    /\ self_vars' = self_vars

\* a call that constructs exactly one declaration, stores it under the name
\* and returns it
BuildsAndStores ==
    /\ call'.err = ""
    /\ Len(Declared(call'.built)) = 1
    /\ call'.ret # 0
    /\ self_vars'[call'.name].id = call'.ret
    /\ self_vars'[call'.name].ctor = Declared(call'.built)[1]

\* C3 (as stated): a reuse-enabled declaration call for a name that has an
\* entry invokes no constructor of the backend and returns that entry; for
\* a name without an entry it constructs exactly one declaration, stores it
\* and returns it.  So of two such calls in a row for one name the second
\* constructs nothing and returns what the first returned.
C3_ReuseBuildsOnce ==
    [][/\ (call'.op \in DeclOps /\ call'.cached)
          => IF self_vars[call'.name] # NoObject
             THEN ReuseFindsEntry
             ELSE BuildsAndStores
       /\ ReuseTwice
          => (ReuseFindsEntry /\ call'.ret = call.ret)]_vars

\* C3 (amended): a reuse-enabled declaration call for a name that has an
\* entry invokes no constructor of the backend and returns that entry.  For
\* a name without an entry the body runs: when it returns, exactly one
\* declaration has been constructed, stored and returned; when it raises
\* (no problem or no grid set, or an unknown interpolation kind), no
\* declaration is constructed and nothing is stored.  So of two such calls
\* in a row for one name, the second returns what the first returned when
\* the first returned, and runs the body again when the first raised.
C3_ReuseBuildsOnceUnlessRaised ==
    [][/\ (call'.op \in DeclOps /\ call'.cached)
          => IF self_vars[call'.name] # NoObject
             THEN ReuseFindsEntry
             ELSE \/ BuildsAndStores
                  \/ /\ call'.err # ""
                     /\ call'.ret = 0
                     /\ Declared(call'.built) = <<>>
                     /\ self_vars' = self_vars
       /\ (ReuseTwice /\ call.err = "")
          => (ReuseFindsEntry /\ call'.ret = call.ret)
       /\ (ReuseTwice /\ call.err # "")
          => /\ self_vars[call.name] = NoObject
             /\ call'.err # "" \/ Len(Declared(call'.built)) = 1]_vars

\* a reuse-enabled call found the entry of its name and returned it
C3_ReuseHit ==
    /\ call.op \in DeclOps
    /\ call.cached
    /\ call.built = <<>>
    /\ call.ret # 0
    /\ call.ret = self_vars[call.name].id

\* C4: deallocate of a name without an entry raises nothing and changes
\* nothing; a second deallocate of the same name right after the first
\* raises nothing and leaves the cache as the first left it.
C4_ReleaseIdempotent ==
    [][(call'.op = "deallocate")
       => /\ call'.err = ""
          /\ self_vars[call'.name] = NoObject
             => /\ self_vars' = self_vars
                /\ UNCHANGED <<problem, grid, regions>>
          /\ (call.op = "deallocate" /\ call.name = call'.name)
             => self_vars' = self_vars]_vars

\* a name without an entry was released while another name holds a buffer
C4_ReleasedAbsent ==
    /\ call.op = "deallocate"
    /\ call.err = ""
    /\ self_vars[call.name] = NoObject
    /\ \E n \in Names : self_vars[n].data = "buffer"

\* the interpolation kinds that sparse_time_function does not know
UnknownKinds == Kinds \ {"linear", "hicks"}

\* C17 (as stated): sparse_time_function with an interpolation kind other
\* than 'linear' or 'hicks' fails with an error at the call and leaves the
\* cache unchanged: no entry is created for the name and an existing entry
\* is not replaced.
C17_UnknownKindFails ==
    [][\A name \in Names, cached \in BOOLEAN, kind \in UnknownKinds :
          CallSparseTimeFunction(name, cached, kind)
          => (/\ call'.err # ""
              /\ self_vars' = self_vars)]_vars

\* C17 (amended): such a call leaves the cache unchanged and constructs no
\* declaration; it fails whenever the body runs, that is when reuse is
\* disabled or the name has no entry.  With reuse enabled and an entry for
\* the name, the entry is returned and no error is raised.
C17_UnknownKindFailsInBody ==
    [][\A name \in Names, cached \in BOOLEAN, kind \in UnknownKinds :
          CallSparseTimeFunction(name, cached, kind)
          => (/\ self_vars' = self_vars
              /\ Declared(call'.built) = <<>>
              /\ IF cached /\ self_vars[name] # NoObject
                 THEN /\ call'.err = ""
                      /\ call'.ret = self_vars[name].id
                 ELSE /\ call'.err # ""
                      /\ call'.ret = 0)]_vars

\* a call with an unknown kind and reuse disabled has failed while the name
\* has an entry with a buffer
C17_FailedOverEntry ==
    /\ call.op = "sparse_time_function"
    /\ call.err = "ValueError"
    /\ ~call.cached
    /\ self_vars[call.name] # NoObject
    /\ self_vars[call.name].data = "buffer"

-----------------------------------------------------------------------------
(* The claims about Time, under SpecTime.                                  *)

\* how many of the four arguments of the latest Time(...) are not None
Supplied ==
    Cardinality({k \in {"start", "step", "num", "stop"} : IsNumber(timeCall[k])})

\* stop == start + step*(num - 1), as Python evaluates it
Consistent(start, step, num, stop) ==
    NumEq(stop, Add(start, Mul(step, Sub(num, One))))

\* C5: Time(...) with fewer than three of start, stop, step, num, or with all
\* four and stop # start + step*(num - 1), raises and yields no grid; every
\* grid that was built satisfies stop = start + step*(num - 1).
C5_ThreeOfFourOrError ==
    timeCall.op = "init"
    => /\ Supplied < 3 => (timeCall.err # "" /\ time = NoTime)
       /\ (/\ Supplied = 4
           /\ ~Consistent(timeCall.start, timeCall.step, timeCall.num,
                          timeCall.stop))
          => (timeCall.err # "" /\ time = NoTime)
       /\ timeCall.err = ""
          => Consistent(time.start, time.step, time.num, time.stop)

\* the latest call built a grid from (start, step, num), stop left out
BuiltFromStep ==
    /\ timeCall.op = "init"
    /\ timeCall.err = ""
    /\ IsNumber(timeCall.start) /\ IsNumber(timeCall.step)
    /\ IsNumber(timeCall.num) /\ IsNone(timeCall.stop)

\* the next call is Time(start, stop, num) with the values read off the grid
RebuildsFromStop ==
    /\ timeCall'.op = "init"
    /\ timeCall'.start = time.start
    /\ IsNone(timeCall'.step)
    /\ timeCall'.num = time.num
    /\ timeCall'.stop = time.stop

\* the second grid is built and has the start, stop and num of the first,
\* the very values it was given
SameGrid ==
    /\ timeCall'.err = ""
    /\ time' # NoTime
    /\ time'.stop = time.stop
    /\ time'.num = time.num
    /\ time'.start = time.start

\* x * y of two numbers as a real: the product of two doubles without the
\* rounding, in a significand as wide as it takes
ExactMul(a, b) ==
    LET x == ToFloat(a)
        y == ToFloat(b)
    IN  IF Len(x.m) = 0 \/ Len(y.m) = 0 THEN FloatZero(1)
        ELSE Normal(x.sgn * y.sgn, BigMul(x.m, y.m), x.e + y.e)

\* |x - y| of two numbers as a real
ExactDistance(a, b) ==
    LET x == ToFloat(a)
        y == ToFloat(b)
        e == IF x.e < y.e THEN x.e ELSE y.e
        p == BigShl(x.m, x.e - e)
        q == BigShl(y.m, y.e - e)
        c == BigCmp(p, q)
    IN  IF Len(x.m) = 0 THEN [y EXCEPT !.sgn = 1]
        ELSE IF Len(y.m) = 0 THEN [x EXCEPT !.sgn = 1]
        ELSE IF x.sgn # y.sgn THEN Normal(1, BigAdd(p, q), e)
        ELSE IF c = 0 THEN FloatZero(1)
        ELSE IF c > 0 THEN Normal(1, BigSub(p, q), e)
        ELSE Normal(1, BigSub(q, p), e)

\* max(|x|, |y|) of two numbers
LargerMagnitude(a, b) ==
    LET x == [ToFloat(a) EXCEPT !.sgn = 1]
        y == [ToFloat(b) EXCEPT !.sgn = 1]
    IN  IF Gt(x, y) THEN x ELSE y

\* 2^-50, eight half units in the last place of 1.0
RoundingBound == Normal(1, <<1>>, -50)

\* the step of the second grid is the step of the first up to the rounding
\* of the four operations between them: over the num - 1 steps of the grid
\* the two differ by at most 2^-50 times the larger of |start| and |stop|
StepWithinRounding ==
    Cmp(ExactMul(Sub(time.num, One), ExactDistance(time'.step, time.step)),
        ExactMul(RoundingBound, LargerMagnitude(time.start, time.stop)))
      \in {"lt", "eq"}

\* C6 (as stated): for every start, step and int num >= 1, Time(start, step,
\* num) followed by Time(start, stop, num) with the stop read off the first
\* grid succeeds and gives the step, stop and num of the first grid.
C6_RoundTripFromOne ==
    [][(BuiltFromStep /\ time.num.n >= 1 /\ RebuildsFromStop)
       => (SameGrid /\ NumEq(time'.step, time.step))]_vars

\* C6 (amended): for every int num >= 2 the second construction succeeds
\* and gives the start, stop and num of the first grid, and a step that
\* equals the first step up to floating-point rounding; the two steps are
\* equal when start and step are ints.  With num = 1 the second
\* construction divides by num - 1 = 0 and raises.
C6_RoundTripFromTwo ==
    [][(BuiltFromStep /\ RebuildsFromStop)
       => /\ time.num.n >= 2
             => /\ SameGrid
                /\ StepWithinRounding
                /\ (time.start.t = "int" /\ time.step.t = "int")
                   => NumEq(time'.step, time.step)
          /\ time.num.n = 1
             => (timeCall'.err = "ValueError" /\ time' = NoTime)]_vars

\* the grid of Time(start=1, step=0.1, num=2), whose stop is 1.1, was
\* rebuilt from its start, stop and num: the step came back as
\* 0.10000000000000009
C6_Rebuilt ==
    /\ timeCall.op = "init"
    /\ timeCall.err = ""
    /\ IsNone(timeCall.step)
    /\ timeCall.start = PyInt(1)
    /\ timeCall.num = PyInt(2)
    /\ timeCall.stop = Add(PyInt(1), PyFloat(1, 10))
    /\ NumNe(time.step, PyFloat(1, 10))

\* C7: extend((left_pad, right_pad)) sets extended_num = num + left_pad +
\* right_pad, extended_start = start - (left_pad - 1)*step and extended_stop =
\* stop + (right_pad - 1)*step, and leaves start, stop, step and num alone.
\* The two boundaries are the values of these very expressions in Python,
\* rounded as Python rounds them.
C7_ExtendByPadMinusOne ==
    [][(timeCall'.op = "extend")
       => LET left_pad == timeCall'.extra[1]
              right_pad == timeCall'.extra[2]
          IN  /\ time'.extra = <<left_pad, right_pad>>
              /\ time'.extended_num = PyInt(time.num.n + left_pad + right_pad)
              /\ time'.extended_start =
                    Sub(time.start, Mul(PyInt(left_pad - 1), time.step))
              /\ time'.extended_stop =
                    Add(time.stop, Mul(PyInt(right_pad - 1), time.step))
              /\ time'.start = time.start /\ time'.stop = time.stop
              /\ time'.step = time.step /\ time'.num = time.num]_vars

\* a grid with a non-zero step was padded by two steps on the left and one
\* on the right
C7_Extended ==
    /\ timeCall.op = "extend"
    /\ timeCall.extra = <<2, 1>>
    /\ time.extra = <<2, 1>>
    /\ ~IsZero(time.step)
    /\ time.num.n >= 2

\* C16 (as stated): a grid that was never extended has extended values that
\* obey the derivation of extend with padding (0, 0): extended_start =
\* start - (0 - 1)*step, extended_stop = stop + (0 - 1)*step, extended_num =
\* num; so extend((0, 0)) on a freshly built grid leaves extended_start,
\* extended_stop and extended_num unchanged.
C16_FreshObeysExtend ==
    [][(/\ timeCall.op = "init"
        /\ timeCall.err = ""
        /\ timeCall'.op = "extend"
        /\ timeCall'.extra = <<0, 0>>)
       => (/\ NumEq(time.extended_start,
                    Sub(time.start, Mul(PyInt(0 - 1), time.step)))
           /\ NumEq(time.extended_stop,
                    Add(time.stop, Mul(PyInt(0 - 1), time.step)))
           /\ NumEq(time.extended_num, time.num)
           /\ NumEq(time'.extended_start, time.extended_start)
           /\ NumEq(time'.extended_stop, time.extended_stop)
           /\ NumEq(time'.extended_num, time.extended_num))]_vars

-----------------------------------------------------------------------------
(* The claim about Space, under SpecSpace.                                 *)

RECURSIVE Prod(_)
Prod(shape) == IF Len(shape) = 0 THEN 1 ELSE Head(shape) * Prod(Tail(shape))

\* the sum of the entries of an array of zeros and ones
MaskSum(a) == Cardinality({c \in DOMAIN a : a[c] = 1})

\* C8: extended_shape[i] = shape[i] + 2*extra[i] on every axis; the inner
\* slices lie inside the extended shape, span shape[i] cells and leave
\* extra[i] cells on each side; the inner mask covers the extended shape, is
\* 1 exactly on the cells of the inner slices and sums to prod(shape).
C8_InnerCentred ==
    space # NoSpace
    => /\ space.shape = spaceCall.shape
       /\ Len(space.extended_shape) = space.dim
       /\ \A i \in 1..space.dim :
            space.extended_shape[i] = space.shape[i] + 2 * space.extra[i]
       /\ inner # <<>>
          => /\ Len(inner) = space.dim
             /\ \A i \in 1..space.dim :
                  /\ 0 <= inner[i].start
                  /\ inner[i].stop <= space.extended_shape[i]
                  /\ inner[i].stop - inner[i].start = space.shape[i]
                  /\ inner[i].start = space.extra[i]
                  /\ space.extended_shape[i] - inner[i].stop = space.extra[i]
       /\ inner_mask # <<>>
          => /\ DOMAIN inner_mask = Cells(space.extended_shape)
             /\ \A c \in DOMAIN inner_mask :
                  inner_mask[c] = 1
                  <=> \A i \in 1..space.dim :
                        /\ space.extra[i] <= c[i]
                        /\ c[i] < space.extra[i] + space.shape[i]
             /\ \A c \in DOMAIN inner_mask : inner_mask[c] \in {0, 1}
             /\ MaskSum(inner_mask) = Prod(space.shape)

\* the slices and the mask of a padded grid of two axes, with different
\* shapes and paddings on the two axes, have been read
C8_MaskRead ==
    /\ space.dim = 2
    /\ space.shape[1] # space.shape[2]
    /\ space.extra[1] > 0 /\ space.extra[1] # space.extra[2]
    /\ inner # <<>>
    /\ inner_mask # <<>>

-----------------------------------------------------------------------------
(* The claims about the subdomains of GridDevito, under SpecHicks.         *)

\* how many of the subdomains handed to the backend are s
Count(subs, s) == Cardinality({k \in 1..Len(subs) : subs[k] = s})
CountKind(subs, kind) == Cardinality({k \in 1..Len(subs) : subs[k].kind = kind})

\* C9: the set_problem that builds the grid, for a problem whose space has
\* dim axes, hands the backend 2 + 4*dim + 2*dim + 2^dim subdomains: one
\* full, one interior, one side, one partial and one centre region per axis
\* and side, and one corner region per choice of left or right on every
\* axis.  A set_problem on a grid that is built hands the backend nothing:
\* the grid keeps its list whatever the space of the new problem.
C9_SubdomainCount ==
    [][/\ (grid.state = "None" /\ grid'.state = "built")
          => LET subs == grid'.subdomains
                 dim == problem'.space.dim
                 extra == problem'.space.absorbing
             IN  /\ call'.op = "set_problem"
                 /\ Len(grid'.shape) = dim
                 /\ Len(subs) = 2 + 4 * dim + 2 * dim + Pow2(dim)
                 /\ Count(subs, FullDomain(extra)) = 1
                 /\ Count(subs, InteriorDomain(extra)) = 1
                 /\ CountKind(subs, "full") = 1
                 /\ CountKind(subs, "interior") = 1
                 /\ \A d \in 0..(dim - 1), side \in {"left", "right"} :
                      /\ Count(subs, PMLSide(extra, d, side)) = 1
                      /\ Count(subs, PMLPartial(extra, d, side)) = 1
                      /\ Count(subs, PMLCentre(extra, d, side)) = 1
                 /\ CountKind(subs, "side") = 2 * dim
                 /\ CountKind(subs, "partial") = 2 * dim
                 /\ CountKind(subs, "centre") = 2 * dim
                 /\ \A sides \in [1..dim -> {"left", "right"}] :
                      Count(subs, PMLCorner(extra, sides)) = 1
                 /\ CountKind(subs, "corner") = Pow2(dim)
       /\ grid.state = "built" => grid' = grid]_vars

\* the grid of a space of three axes has been built, with its 28 subdomains
C9_BuiltThreeAxes ==
    /\ grid.state = "built"
    /\ call.op = "set_problem"
    /\ Len(grid.shape) = 3
    /\ Len(grid.subdomains) = 28

\* C10 (as stated): for dim = 2 the decomposition has 26 subdomains.
C10_TwentySix ==
    (grid.state = "built" /\ Len(grid.shape) = 2)
    => Len(grid.subdomains) = 26

\* C10 (amended): for dim = 2 the decomposition has 2 + 8 + 4 + 4 = 18
\* subdomains: full and interior, four side and four partial regions, four
\* centre regions and four corner regions.
C10_Eighteen ==
    (grid.state = "built" /\ Len(grid.shape) = 2)
    => /\ Len(grid.subdomains) = 18
       /\ CountKind(grid.subdomains, "full")
          + CountKind(grid.subdomains, "interior") = 2
       /\ CountKind(grid.subdomains, "side")
          + CountKind(grid.subdomains, "partial") = 8
       /\ CountKind(grid.subdomains, "centre") = 4
       /\ CountKind(grid.subdomains, "corner") = 4

\* the grid of a space of two axes has been built and is kept under a
\* problem of another space
C10_BuiltTwoAxes ==
    /\ grid.state = "built"
    /\ call.op = "set_problem"
    /\ Len(grid.shape) = 2
    /\ problem.space.dim # 2

-----------------------------------------------------------------------------
(* The claim about SlowTime, under SpecSlowTime.                           *)

\* the latest SlowTime(...) was given an acquisition step or rate
AcqGiven == IsNumber(slowCall.acq_step) \/ IsNumber(slowCall.acq_rate)

\* C11: SlowTime(...) with num_acq*acq_step > frame_step raises and yields
\* no object, so every object built has num_acq*acq_step <= frame_step and
\* num = num_frame*num_acq; with neither acq_step nor acq_rate given,
\* num_acq is 1 and num = num_frame.
C11_AcquisitionsFitFrame ==
    slowCall.op # "none"
    => /\ (/\ IsNumber(slowCall.num_acq) /\ IsNumber(slowCall.acq_step)
           /\ IsNumber(slowCall.frame_step)
           /\ Gt(Mul(slowCall.num_acq, slowCall.acq_step),
                 slowCall.frame_step))
          => (slowCall.err # "" /\ slow_time = NoSlowTime)
       /\ slowCall.err # "" <=> slow_time = NoSlowTime
       /\ slow_time # NoSlowTime
          => /\ Cmp(Mul(slow_time.num_acq, slow_time.acq_step),
                    slow_time.frame_step) \in {"lt", "eq"}
             /\ slow_time.num_frame = slowCall.num_frame
             /\ AcqGiven => slow_time.num_acq = slowCall.num_acq
             /\ ~AcqGiven => slow_time.num_acq = PyInt(1)
             /\ slowCall.op = "num"
                => /\ slowCall.ret =
                        PyInt(slow_time.num_frame.n * slow_time.num_acq.n)
                   /\ ~AcqGiven => slowCall.ret = slowCall.num_frame

\* num has been read off a grid of several frames with several acquisitions
\* per frame that fill the frame exactly
C11_NumRead ==
    /\ slowCall.op = "num"
    /\ slow_time.num_frame.n >= 2
    /\ slow_time.num_acq.n >= 2
    /\ NumEq(Mul(slow_time.num_acq, slow_time.acq_step), slow_time.frame_step)

-----------------------------------------------------------------------------
(* The claims about Space.resample, under SpecResample.                    *)

\* round(x) of a float x >= 0: to the nearest integer, a tie to the even
\* one
RoundInt(a) ==
    LET f == TruncInt(a)
        c == Cmp(ExactDistance(a, PyInt(f)), PyFloat(1, 2))
    IN  IF c = "lt" THEN f
        ELSE IF c = "gt" THEN f + 1
        ELSE IF f % 2 = 0 THEN f ELSE f + 1

\* the spacing per axis that the latest resample was given
NewSpacing(i) ==
    IF resampled.spacing.scalar THEN resampled.spacing.vals[1]
    ELSE resampled.spacing.vals[i]

\* C12 (as stated): resample(new_spacing) returns a grid whose shape on each
\* axis is round(limit[i]/new_spacing[i]) + 1, for every source grid and
\* positive new spacing, also when limit/new_spacing is not an integer.
C12_ShapeRounded ==
    resampled.op = "resample"
    => /\ resampled.ret.dim = space.dim
       /\ \A i \in 1..space.dim :
            resampled.ret.shape[i] =
                RoundInt(TrueDiv(space.limit[i], NewSpacing(i))) + 1

\* C15 (as stated): resample with extra and absorbing omitted, from a source
\* grid with extra >= 0 and 0 <= absorbing <= extra and a positive new
\* spacing, returns a grid with shape[i] >= 1, extra[i] >= 0 and
\* 0 <= absorbing[i] <= extra[i] on every axis, and leaves the source grid
\* unchanged.
C15_ResampledValid ==
    [][(/\ resampled'.op = "resample"
        /\ resampled' # resampled
        /\ resampled'.extra = <<>>
        /\ resampled'.absorbing = <<>>
        /\ \A i \in 1..space.dim :
             /\ space.extra[i] >= 0
             /\ 0 <= space.absorbing[i]
             /\ space.absorbing[i] <= space.extra[i])
       => /\ space' = space
          /\ \A i \in 1..space.dim :
               /\ resampled'.ret.shape[i] >= 1
               /\ resampled'.ret.extra[i] >= 0
               /\ 0 <= resampled'.ret.absorbing[i]
               /\ resampled'.ret.absorbing[i] <= resampled'.ret.extra[i]]_vars

-----------------------------------------------------------------------------
(* The claim about calculate_hicks, under SpecHicks.                       *)

\* the indices of the nodes of the extended domain of the space sp on axis i
Nodes(sp, i) == 0..(sp.extended_shape[i] - 1)

\* coord == pml_origin + n*spacing on axis i of the space sp, in doubles
OnNode(sp, coord, i, n) ==
    NumEq(coord, Add(sp.pml_origin[i], Mul(PyInt(n), sp.spacing[i])))

\* the point p handed to the latest calculate_hicks lies on a node of the
\* space the call read on every axis
OnNodes(p) ==
    \A i \in 1..hicks.space.dim :
        \E n \in Nodes(hicks.space, i) :
            OnNode(hicks.space, hicks.coordinates[p][i], i, n)

OffsetWithinRounding(sp, coord, i, n, offset) ==
    /\ offset.t = "float"
    /\ Cmp(ExactMul(sp.spacing[i], ExactDistance(offset, PyInt(0))),
           ExactMul(RoundingBound,
                    LargerMagnitude(coord, ExactMul(PyInt(n), sp.spacing[i]))))
         \in {"lt", "eq"}

\* np.sinc(x)*weights at a double x # 0: not a number of the model but the
\* double the two library functions give at x.  At x = k + offset for a tap
\* k # 0 and an offset within rounding this is a residue of the order of
\* the rounding error of pi*x, and not 0
Residue(x) == [ToFloat(x) EXCEPT !.t = "sinc*kaiser"]

-----------------------------------------------------------------------------
(* The claim about the regions registered as pml, under SpecHicks.         *)

\* C14 (as stated): for dim in {1, 2, 3} and 2*absorbing[i] <=
\* extended_shape[i], the interior region and the regions registered as pml
\* cover the extended domain: every cell outside the interior region lies
\* in at least one partial region.
C14_PartialsCover ==
    (/\ grid.state = "built"
     /\ problem.space.dim \in {1, 2, 3}
     /\ \A i \in 1..problem.space.dim :
          2 * problem.space.absorbing[i] <= problem.space.extended_shape[i])
    => \A c \in Cells(grid.shape) :
         \/ InSubdomain(regions.interior[1], c, grid.shape)
         \/ \E k \in 1..Len(regions.pml) :
               InSubdomain(regions.pml[k], c, grid.shape)

=============================================================================
